---- MODULE Spec2Model ----
(***************************************************************************)
(* FocusEngine (denisoed/focus-engine): spatial keyboard navigation with   *)
(* parent/child drill-in and escape.  The model follows the latest engine  *)
(* source (src/unnamed/part_000, lines 1-914): the class fields are the    *)
(* variables, every public method and every host event is one action.      *)
(*                                                                         *)
(* Host side (the document): `dom` is the ordered list of elements that    *)
(* match the selector, `hidden` the elements whose offsetParent is null    *)
(* although they are in the document, `docActive` is                       *)
(* document.activeElement (None = body), `decorated` the elements whose    *)
(* classList holds focusClassName.                                         *)
(*                                                                         *)
(* Numbers: centres and distances are kept exact in integers.  A centre is *)
(* stored doubled (2*left + width), a distance is stored times 2000, so    *)
(* that the factors 0.3, 0.8 and 1.5 stay integral.                        *)
(***************************************************************************)
EXTENDS Integers, Sequences, FiniteSets, TLC

VARIABLES
    layout,                   \* the fixture the document shows (fixed by Init)
    dom,                      \* document order of the elements matching the selector
    hidden,                   \* elements in the document with offsetParent === null
    styleHidden,              \* elements whose computed style is visibility:hidden or opacity:0
    docActive,                \* document.activeElement
    decorated,                \* elements carrying focusClassName
    focusableElements,        \* FocusEngine.focusableElements
    currentFocusIndex,        \* FocusEngine.currentFocusIndex
    initialized,              \* FocusEngine.initialized
    focusEventHandlers,       \* FocusEngine.focusEventHandlers: element -> captured index
    previouslyFocusedElement, \* FocusEngine.previouslyFocusedElement
    lastParentMap,            \* FocusEngine.lastParentMap: group key -> element
    activeElement,            \* FocusEngine.activeElement
    pendingInit,              \* the constructor's setTimeout(init, 0) is pending
    pending100,               \* pending setTimeout(setInitialFocus, 100) of init
    pending300,               \* pending setTimeout(re-check, 300) of init
    torn,                     \* destroy() has run at least once
    last,                     \* log of the most recent operation and its outcome
    scen,                     \* progress of the multi-command scenarios
    found,                    \* the most recent direct call of findNextFocusable
    other                     \* the fields of a second FocusEngine on the same page

vars == <<layout, dom, hidden, styleHidden, docActive, decorated, focusableElements,
          currentFocusIndex, initialized, focusEventHandlers,
          previouslyFocusedElement, lastParentMap, activeElement, pendingInit,
          pending100, pending300, torn, last, scen, found, other>>

---------------------------------------------------------------------------
(* Bounds *)

\* deferred steps of one kind that may be pending at once
MaxPending == 1

\* the drawn documents place their boxes on a lattice of MaxCells + 1
\* columns and rows
MaxCells == 2

---------------------------------------------------------------------------
(* Elements and fixtures *)

None == 0

Elems == 1 .. 5

Dirs == {"ArrowUp", "ArrowDown", "ArrowLeft", "ArrowRight"}

Keys == {"k"}

Changes == {"present", "display", "style"}

Range(s) == {s[i] : i \in 1 .. Len(s)}

Box(l, t, w, h) ==
    [left |-> l, top |-> t, right |-> l + w, bottom |-> t + h, width |-> w, height |-> h]

ZeroRect == Box(0, 0, 0, 0)

LeafEl(r) == [rect |-> r, parent |-> "", childOf |-> ""]

HeadEl(r, k) == [rect |-> r, parent |-> k, childOf |-> ""]

ChildEl(r, k) == [rect |-> r, parent |-> "", childOf |-> k]

\* A fixture is a document the engine is constructed over: the side the
\* group heads are on, the elements that match the selector at first, every
\* element's box and attributes, and the changes the host page makes to the
\* document while the engine runs ("present": remove and append again,
\* "display": display:none and back, "style": opacity:0 and back).

\* The reference grid of the test suite: item1..item4, and item5 which the
\* host adds later.
GridFixture ==
    [position |-> "left",
     initial  |-> <<1, 2, 3, 4>>,
     mutations |-> {<<5, "present">>, <<1, "display">>},
     el       |-> <<LeafEl(Box(0, 0, 100, 100)),
                    LeafEl(Box(120, 0, 100, 100)),
                    LeafEl(Box(0, 120, 100, 100)),
                    LeafEl(Box(120, 120, 100, 100)),
                    LeafEl(Box(240, 120, 100, 100))>>]

\* Categories on the left: head 1, its children 2 and 3 in a column to the
\* right of it, a thin leaf 4 between head and children, and a second
\* head 5 carrying the same key.
MenuLeftFixture ==
    [position |-> "left",
     initial  |-> <<1, 2, 3, 4, 5>>,
     mutations |-> {<<1, "display">>, <<3, "display">>},
     el       |-> <<HeadEl(Box(0, 0, 100, 100), "k"),
                    ChildEl(Box(120, 0, 100, 100), "k"),
                    ChildEl(Box(120, 120, 100, 100), "k"),
                    LeafEl(Box(105, 0, 10, 100)),
                    HeadEl(Box(0, 120, 100, 100), "k")>>]

\* The mirror image, configured with parentPosition 'right'.
MenuRightFixture ==
    [position |-> "right",
     initial  |-> <<1, 2, 3, 4, 5>>,
     mutations |-> {<<2, "style">>, <<3, "display">>},
     el       |-> <<HeadEl(Box(120, 0, 100, 100), "k"),
                    ChildEl(Box(0, 0, 100, 100), "k"),
                    ChildEl(Box(0, 120, 100, 100), "k"),
                    LeafEl(Box(105, 0, 10, 100)),
                    HeadEl(Box(120, 120, 100, 100), "k")>>]

\* A head that sits between two children of its own group: child 1 to its
\* right, child 3 to its left and lower, overlapping child 1's row.
StaggerFixture ==
    [position |-> "left",
     initial  |-> <<1, 2, 3>>,
     mutations |-> {<<3, "present">>, <<2, "display">>},
     el       |-> <<ChildEl(Box(220, 0, 100, 100), "k"),
                    HeadEl(Box(110, 0, 100, 80), "k"),
                    ChildEl(Box(0, 90, 100, 100), "k"),
                    LeafEl(Box(0, 300, 100, 100)),
                    LeafEl(Box(220, 300, 100, 100))>>]

\* One head with a single child to its right, nothing else; the page hides
\* and shows both, so that at times no element is rendered, and it removes
\* the head and appends it again, which puts it after the child.
PairFixture ==
    [position |-> "left",
     initial  |-> <<1, 2>>,
     mutations |-> {<<1, "display">>, <<2, "display">>, <<1, "present">>},
     el       |-> <<HeadEl(Box(0, 0, 100, 100), "k"),
                    ChildEl(Box(120, 0, 100, 100), "k"),
                    LeafEl(Box(0, 120, 100, 100)),
                    LeafEl(Box(0, 300, 100, 100)),
                    LeafEl(Box(220, 300, 100, 100))>>]

\* A head whose first child lies behind it: child 2 to the left of head 1,
\* child 3 to its right and lower, and a thin leaf 4 directly to the right
\* of the head; the page hides and shows both children.
BehindFixture ==
    [position |-> "left",
     initial  |-> <<1, 2, 3, 4>>,
     mutations |-> {<<2, "display">>, <<3, "display">>},
     el       |-> <<HeadEl(Box(120, 0, 100, 100), "k"),
                    ChildEl(Box(0, 0, 100, 100), "k"),
                    ChildEl(Box(240, 50, 100, 100), "k"),
                    LeafEl(Box(225, 0, 10, 100)),
                    LeafEl(Box(0, 300, 100, 100))>>]

Layouts == {GridFixture, MenuLeftFixture, MenuRightFixture, StaggerFixture, PairFixture,
            BehindFixture}

\* Drawn documents for the spatial search: three plain elements, the first
\* in the middle column or scrolled partly off the left of the viewport, the
\* other two anywhere on the lattice, each side short or long.
Coords == {50 * i : i \in 0 .. MaxCells}

Sizes == {40, 120}

FreeBoxes == {Box(l, t, w, h) : l \in Coords, t \in Coords, w \in Sizes, h \in Sizes}

MiddleBoxes == {Box(l, 50, w, h) : l \in {0 - 10, 50}, w \in Sizes, h \in Sizes}

FreeFixtures ==
    {[position |-> "left",
      initial  |-> <<1, 2, 3>>,
      mutations |-> {},
      el       |-> <<LeafEl(b1), LeafEl(b2), LeafEl(b3)>>] :
        b1 \in MiddleBoxes, b2 \in FreeBoxes, b3 \in FreeBoxes}

Fixture == layout

\* options.parentPosition
parentPosition == Fixture.position

\* el.getAttribute(parentAttr) and el.getAttribute(childAttr); "" when absent
ParentKey(e) == Fixture.el[e].parent

ChildOfKey(e) == Fixture.el[e].childOf

\* el.offsetParent !== null: attached to the document and rendered
IsVisible(e) == e \in Range(dom) /\ e \notin hidden

\* element.getBoundingClientRect(): the live box, zeros when not rendered
getRect(e) == IF IsVisible(e) THEN Fixture.el[e].rect ELSE ZeroRect

---------------------------------------------------------------------------
(* Geometry *)

Abs(x) == IF x < 0 THEN 0 - x ELSE x

Min(a, b) == IF a < b THEN a ELSE b

\* twice the centre of a rectangle
getCenter(rect) == [x |-> 2 * rect.left + rect.width, y |-> 2 * rect.top + rect.height]

\* getProjection that returns the current element's own centre coordinate
getProjectionOfCurrent(currentRect, candidateRect, direction) ==
    LET c == getCenter(currentRect)
    IN  IF direction \in {"ArrowUp", "ArrowDown"} THEN c.x ELSE c.y

\* twice the projection of the candidate's centre, clamped to the current box
getProjection(currentRect, candidateRect, direction) ==
    LET c == getCenter(candidateRect)
    IN  IF direction \in {"ArrowUp", "ArrowDown"}
        THEN IF c.x < 2 * currentRect.left THEN 2 * currentRect.left
             ELSE IF c.x > 2 * currentRect.right THEN 2 * currentRect.right
             ELSE c.x
        ELSE IF c.y < 2 * currentRect.top THEN 2 * currentRect.top
             ELSE IF c.y > 2 * currentRect.bottom THEN 2 * currentRect.bottom
             ELSE c.y

\* IsSuitable with the signs of the horizontal test swapped
IsSuitableSwapped(currentRect, candidateRect, direction) ==
    LET cur == getCenter(currentRect)
        cand == getCenter(candidateRect)
        dx == cand.x - cur.x
        dy == cand.y - cur.y
        overlapX == candidateRect.right > currentRect.left /\ candidateRect.left < currentRect.right
        overlapY == candidateRect.bottom > currentRect.top /\ candidateRect.top < currentRect.bottom
    IN  CASE direction = "ArrowUp" -> dy < 0 /\ overlapX
          [] direction = "ArrowDown" -> dy > 0 /\ overlapX
          [] direction = "ArrowLeft" -> dx > 0 /\ overlapY
          [] OTHER -> dx < 0 /\ overlapY

\* IsSuitable without the overlap test on the cross axis
IsSuitableAnySpan(currentRect, candidateRect, direction) ==
    LET cur == getCenter(currentRect)
        cand == getCenter(candidateRect)
    IN  CASE direction = "ArrowUp" -> cand.y < cur.y
          [] direction = "ArrowDown" -> cand.y > cur.y
          [] direction = "ArrowLeft" -> cand.x < cur.x
          [] OTHER -> cand.x > cur.x

\* the candidate lies on the travel side and overlaps on the cross axis
IsSuitable(currentRect, candidateRect, direction) ==
    LET cur == getCenter(currentRect)
        cand == getCenter(candidateRect)
        dx == cand.x - cur.x
        dy == cand.y - cur.y
        overlapX == candidateRect.right > currentRect.left /\ candidateRect.left < currentRect.right
        overlapY == candidateRect.bottom > currentRect.top /\ candidateRect.top < currentRect.bottom
    IN  CASE direction = "ArrowUp" -> dy < 0 /\ overlapX
          [] direction = "ArrowDown" -> dy > 0 /\ overlapX
          [] direction = "ArrowLeft" -> dx < 0 /\ overlapY
          [] OTHER -> dx > 0 /\ overlapY

\* Distance without the 0.8 factor for aligned candidates
DistanceNoBonus(currentRect, candidateRect, direction) ==
    LET cur == getCenter(currentRect)
        cand == getCenter(candidateRect)
        dx == Abs(cand.x - cur.x)
        dy == Abs(cand.y - cur.y)
        vertical == direction \in {"ArrowUp", "ArrowDown"}
        primary == IF vertical THEN dy ELSE dx
        cross == IF vertical THEN dx ELSE dy
        base == 100 * (10 * primary + 3 * cross)
        p == getProjection(currentRect, candidateRect, direction)
        onAxis == IF vertical
                  THEN p >= 2 * candidateRect.left /\ p <= 2 * candidateRect.right
                  ELSE p >= 2 * candidateRect.top /\ p <= 2 * candidateRect.bottom
    IN  IF onAxis THEN base ELSE (base * 15) \div 10

\* 2000 times the distance findNextFocusable gives a suitable candidate
Distance(currentRect, candidateRect, direction) ==
    LET cur == getCenter(currentRect)
        cand == getCenter(candidateRect)
        dx == Abs(cand.x - cur.x)
        dy == Abs(cand.y - cur.y)
        vertical == direction \in {"ArrowUp", "ArrowDown"}
        primary == IF vertical THEN dy ELSE dx
        cross == IF vertical THEN dx ELSE dy
        extent == IF vertical THEN Min(currentRect.width, candidateRect.width)
                  ELSE Min(currentRect.height, candidateRect.height)
        base == 100 * (10 * primary + 3 * cross)
        aligned == IF 2 * cross < extent THEN (base * 8) \div 10 ELSE base
        p == getProjection(currentRect, candidateRect, direction)
        onAxis == IF vertical
                  THEN p >= 2 * candidateRect.left /\ p <= 2 * candidateRect.right
                  ELSE p >= 2 * candidateRect.top /\ p <= 2 * candidateRect.bottom
    IN  IF onAxis THEN aligned ELSE (aligned * 15) \div 10

\* the forEach with `distance <= minDistance`: a later candidate at the same
\* distance replaces the earlier one
RECURSIVE ScanCandidatesLastWins(_, _, _, _, _, _)
ScanCandidatesLastWins(cands, i, currentRect, direction, bestCandidate, minDistance) ==
    IF i > Len(cands) THEN bestCandidate
    ELSE LET candidateRect == getRect(cands[i])
             suitable == IsSuitable(currentRect, candidateRect, direction)
             distance == Distance(currentRect, candidateRect, direction)
         IN  IF suitable /\ (minDistance < 0 \/ distance <= minDistance)
             THEN ScanCandidatesLastWins(cands, i + 1, currentRect, direction, cands[i], distance)
             ELSE ScanCandidatesLastWins(cands, i + 1, currentRect, direction, bestCandidate, minDistance)

\* the forEach of findNextFocusable: keep the first candidate of least distance
RECURSIVE ScanCandidates(_, _, _, _, _, _)
ScanCandidates(cands, i, currentRect, direction, bestCandidate, minDistance) ==
    IF i > Len(cands) THEN bestCandidate
    ELSE LET candidateRect == getRect(cands[i])
             suitable == IsSuitable(currentRect, candidateRect, direction)
             distance == Distance(currentRect, candidateRect, direction)
         IN  IF suitable /\ (minDistance < 0 \/ distance < minDistance)
             THEN ScanCandidates(cands, i + 1, currentRect, direction, cands[i], distance)
             ELSE ScanCandidates(cands, i + 1, currentRect, direction, bestCandidate, minDistance)

\* findNextFocusable over a live query of the document instead of the list
\* the last updateFocusableElements() stored
findNextFocusableLive(S, currentElement, direction) ==
    IF currentElement = None THEN None
    ELSE ScanCandidates(
            SelectSeq(dom, LAMBDA el : el # currentElement /\ IsVisible(el)),
            1, getRect(currentElement), direction, None, 0 - 1)

\* findNextFocusable without the filter that drops the current element and
\* the unrendered ones
findNextFocusableUnfiltered(S, currentElement, direction) ==
    IF currentElement = None THEN None
    ELSE ScanCandidates(S.focusableElements, 1, getRect(currentElement), direction, None, 0 - 1)

\* minDistance -1 stands for Infinity
findNextFocusable(S, currentElement, direction) ==
    IF currentElement = None THEN None
    ELSE ScanCandidates(
            SelectSeq(S.focusableElements, LAMBDA el : el # currentElement /\ IsVisible(el)),
            1, getRect(currentElement), direction, None, 0 - 1)

---------------------------------------------------------------------------
(* Engine state as one record, so that a method is a function from state   *)
(* to state and a call sequence is a composition.  `selected`, `kind` and  *)
(* `failed` and `from` are the outcome of the running operation: the       *)
(* argument the onSelect callback got, which branch placed focus, whether  *)
(* a focus() call threw, and the element the operation started from.       *)

\* `inner` is what a command did that the page's own focus listener on the
\* target issued while focus() was running: the element focus() was called
\* on, the element the inner command started from and the element the
\* engine took as focused when it ended.
NoInner == [ran |-> FALSE, at |-> None, from |-> None, to |-> None]

\* `scope` is the set of elements this.selector matches.
Cur ==
    [scope                    |-> Elems \ other.scope,
     focusableElements        |-> focusableElements,
     currentFocusIndex        |-> currentFocusIndex,
     initialized              |-> initialized,
     focusEventHandlers       |-> focusEventHandlers,
     previouslyFocusedElement |-> previouslyFocusedElement,
     lastParentMap            |-> lastParentMap,
     activeElement            |-> activeElement,
     decorated                |-> decorated,
     docActive                |-> docActive,
     pending100               |-> pending100,
     pending300               |-> pending300,
     selected                 |-> None,
     kind                     |-> "none",
     failed                   |-> FALSE,
     from                     |-> None,
     inner                    |-> NoInner]

\* Array.prototype.indexOf, 0-based, -1 when absent
IndexOf(seq, e) ==
    IF e \in Range(seq) THEN (CHOOSE i \in 1 .. Len(seq) : seq[i] = e /\ \A j \in 1 .. (i - 1) : seq[j] # e) - 1
    ELSE 0 - 1

\* Array.prototype.find / element [0] of a filter result; None for undefined
First(seq) == IF seq = <<>> THEN None ELSE seq[1]

Includes(S, e) == e \in Range(S.focusableElements)

NoHandlers == [e \in {} |-> 0]

NoMap == [k \in Keys |-> None]

\* updateFocusClass without the removal from the previously focused element
updateFocusClassKeepsPrevious(S, element) ==
    [S EXCEPT
        !.decorated = @ \cup {element},
        !.previouslyFocusedElement = element,
        !.activeElement = element]

updateFocusClassDocumentWide(S, element) ==
    [S EXCEPT
        !.decorated = {element},
        !.previouslyFocusedElement = element,
        !.activeElement = element]

updateFocusClass(S, element) ==
    [S EXCEPT
        !.decorated = (IF S.previouslyFocusedElement # None /\ S.previouslyFocusedElement # element
                       THEN @ \ {S.previouslyFocusedElement} ELSE @) \cup {element},
        !.previouslyFocusedElement = element,
        !.activeElement = element]

\* the closure registered for `el` by updateFocusableElements
FocusHandler(S, el) ==
    LET S1 == updateFocusClass([S EXCEPT !.currentFocusIndex = S.focusEventHandlers[el]], el)
    IN  IF ChildOfKey(el) # ""
        THEN [S1 EXCEPT !.lastParentMap[ChildOfKey(el)] = el]
        ELSE S1

\* element.focus() that does not throw: the document moves focus to a
\* rendered element and dispatches its focus event; on an element that is
\* not rendered, or that holds focus already, nothing happens.
HostFocus(S, el) ==
    IF IsVisible(el) /\ S.docActive # el
    THEN LET S1 == [S EXCEPT !.docActive = el]
         IN  IF el \in DOMAIN S.focusEventHandlers THEN FocusHandler(S1, el) ELSE S1
    ELSE S

\* the two assignments that follow el.focus() at every placement:
\* currentFocusIndex = indexOf(el); updateFocusClass(el)
AfterFocus(S, el, kind) ==
    [updateFocusClass([S EXCEPT !.currentFocusIndex = IndexOf(S.focusableElements, el)], el)
     EXCEPT !.kind = kind]

\* el.focus(); currentFocusIndex = indexOf(el); updateFocusClass(el), inside
\* try/catch: when focus() throws (el = bad) nothing is assigned.
PlaceFocus(S, el, bad, kind) ==
    IF el = bad THEN [S EXCEPT !.kind = "failed", !.failed = TRUE]
    ELSE AfterFocus(HostFocus(S, el), el, kind)

\* updateParentChildRelationships without the `has` test: every refresh
\* resets the entry to the first child
updateParentChildRelationshipsOverwrites(S) ==
    LET fe == S.focusableElements
        hasParent(k) == \E el \in Range(fe) : ParentKey(el) = k
        childElements(k) == SelectSeq(fe, LAMBDA el : ChildOfKey(el) = k)
    IN  [S EXCEPT !.lastParentMap =
            [k \in Keys |->
                IF hasParent(k) /\ childElements(k) # <<>>
                THEN childElements(k)[1]
                ELSE S.lastParentMap[k]]]

updateParentChildRelationships(S) ==
    LET fe == S.focusableElements
        hasParent(k) == \E el \in Range(fe) : ParentKey(el) = k
        childElements(k) == SelectSeq(fe, LAMBDA el : ChildOfKey(el) = k)
    IN  [S EXCEPT !.lastParentMap =
            [k \in Keys |->
                IF hasParent(k) /\ childElements(k) # <<>> /\ S.lastParentMap[k] = None
                THEN childElements(k)[1]
                ELSE S.lastParentMap[k]]]

\* updateFocusableElements that keeps the handler, and the index it
\* captured, of an element that was registered before
updateFocusableElementsKeepsHandlers(S) ==
    LET list == SelectSeq(dom, LAMBDA el : el \in S.scope)
        S1 == [S EXCEPT !.focusableElements = list,
                        !.focusEventHandlers =
                            [el \in Range(list) |->
                                IF el \in DOMAIN S.focusEventHandlers
                                THEN S.focusEventHandlers[el]
                                ELSE IndexOf(list, el)]]
        S2 == IF S.docActive \in Range(list) THEN updateFocusClass(S1, S.docActive) ELSE S1
    IN  updateParentChildRelationships(S2)

updateFocusableElements(S) ==
    LET list == SelectSeq(dom, LAMBDA el : el \in S.scope)
        S1 == [S EXCEPT !.focusableElements = list,
                        !.focusEventHandlers = [el \in Range(list) |-> IndexOf(list, el)]]
        S2 == IF S.docActive \in Range(list) THEN updateFocusClass(S1, S.docActive) ELSE S1
    IN  updateParentChildRelationships(S2)

clearFocusEventListeners(S) == [S EXCEPT !.focusEventHandlers = NoHandlers]

\* setInitialFocus that takes element 0 whether or not it is rendered
setInitialFocusFirstAlways(S, bad) ==
    LET fe == S.focusableElements
    IN  IF fe = <<>> THEN S
        ELSE [PlaceFocus(S, fe[1], bad, "initial") EXCEPT !.from = fe[1]]

\* setInitialFocus that queries the document when the list is empty
setInitialFocusQueriesDocument(S, bad) ==
    LET fe == IF S.focusableElements = <<>> THEN dom ELSE S.focusableElements
        firstVisibleElement == First(SelectSeq(fe, IsVisible))
    IN  IF fe = <<>> THEN S
        ELSE IF firstVisibleElement # None
             THEN [PlaceFocus(S, firstVisibleElement, bad, "initial") EXCEPT !.from = firstVisibleElement]
             ELSE [PlaceFocus(S, fe[1], bad, "initial") EXCEPT !.from = fe[1]]

setInitialFocus(S, bad) ==
    LET fe == S.focusableElements
        firstVisibleElement == First(SelectSeq(fe, IsVisible))
    IN  IF fe = <<>> THEN S
        ELSE IF firstVisibleElement # None
             THEN [PlaceFocus(S, firstVisibleElement, bad, "initial") EXCEPT !.from = firstVisibleElement]
             ELSE [PlaceFocus(S, fe[1], bad, "initial") EXCEPT !.from = fe[1]]

\* init without the `if (this.initialized) return`
initAgain(S) ==
    [updateFocusableElements(S) EXCEPT
        !.pending100 = @ + 1,
        !.initialized = TRUE,
        !.pending300 = @ + 1,
        !.kind = "init"]

init(S) ==
    IF S.initialized THEN S
    ELSE [updateFocusableElements(S) EXCEPT
            !.pending100 = @ + 1,
            !.initialized = TRUE,
            !.pending300 = @ + 1,
            !.kind = "init"]

\* the callback of init's setTimeout(..., 300)
recheckFocus(S, bad) ==
    IF S.activeElement = None /\ S.docActive = None
    THEN setInitialFocus(S, bad)
    ELSE IF S.activeElement # None \/ (S.docActive # None /\ Includes(S, S.docActive))
         THEN updateFocusClass(S, IF S.activeElement # None THEN S.activeElement ELSE S.docActive)
         ELSE S

destroyKeepsClass(S) ==
    LET S1 == clearFocusEventListeners(S)
    IN  [S1 EXCEPT
            !.previouslyFocusedElement = None,
            !.activeElement = None,
            !.initialized = FALSE,
            !.lastParentMap = NoMap]

destroy(S) ==
    LET S1 == clearFocusEventListeners(S)
    IN  [S1 EXCEPT
            !.decorated = IF S.previouslyFocusedElement # None
                          THEN @ \ {S.previouslyFocusedElement} ELSE @,
            !.previouslyFocusedElement = None,
            !.activeElement = None,
            !.initialized = FALSE,
            !.lastParentMap = NoMap]

---------------------------------------------------------------------------
(* Hierarchy: parent -> child drill-in, child -> parent escape *)

\* the 5-pixel slack of shouldNavigateToChildren's position check
PositionTolerance == 5

\* isElementAtLeftEdge without the sibling scan: every child counts as an
\* edge child
isElementAtLeftEdgeAlways(element, siblingGroup) == TRUE

isElementAtLeftEdge(element, siblingGroup) ==
    IF Len(siblingGroup) <= 1 THEN TRUE
    ELSE LET elementRect == getRect(element)
             hasLeftSibling ==
                \E sibling \in Range(siblingGroup) :
                    /\ sibling # element
                    /\ getRect(sibling).right <= elementRect.left
                    /\ getRect(sibling).bottom > elementRect.top
                    /\ getRect(sibling).top < elementRect.bottom
         IN  ~hasLeftSibling

isElementAtRightEdge(element, siblingGroup) ==
    IF Len(siblingGroup) <= 1 THEN TRUE
    ELSE LET elementRect == getRect(element)
             hasRightSibling ==
                \E sibling \in Range(siblingGroup) :
                    /\ sibling # element
                    /\ getRect(sibling).left >= elementRect.right
                    /\ getRect(sibling).bottom > elementRect.top
                    /\ getRect(sibling).top < elementRect.bottom
         IN  ~hasRightSibling

shouldNavigateToParent(S, currentElement, direction, parentId) ==
    LET navigationDirection == IF parentPosition = "right" THEN "ArrowRight" ELSE "ArrowLeft"
        siblingsWithSameParent ==
            SelectSeq(S.focusableElements, LAMBDA el : ChildOfKey(el) = parentId /\ IsVisible(el))
        isAtEdge == IF parentPosition = "right"
                    THEN isElementAtRightEdge(currentElement, siblingsWithSameParent)
                    ELSE isElementAtLeftEdge(currentElement, siblingsWithSameParent)
        parentElements ==
            SelectSeq(S.focusableElements, LAMBDA el : ParentKey(el) = parentId /\ IsVisible(el))
    IN  IF direction # navigationDirection THEN FALSE
        ELSE IF ~isAtEdge THEN FALSE
        ELSE IF parentElements = <<>> THEN FALSE
        ELSE LET parentRect == getRect(parentElements[1])
                 currentRect == getRect(currentElement)
             IN  IF parentPosition = "right"
                 THEN parentRect.left >= currentRect.right
                 ELSE parentRect.right <= currentRect.left

\* the parent to focus, or None
checkParentNavigation(S, currentElement, direction) ==
    LET childOfValue == ChildOfKey(currentElement)
        parentElements == SelectSeq(S.focusableElements, LAMBDA el : ParentKey(el) = childOfValue)
    IN  IF childOfValue = "" THEN None
        ELSE IF parentElements = <<>> THEN None
        ELSE IF shouldNavigateToParent(S, currentElement, direction, childOfValue)
             THEN parentElements[1]
             ELSE None

shouldNavigateToChildrenAnywhere(S, currentElement, direction) ==
    LET navigationDirection == IF parentPosition = "right" THEN "ArrowLeft" ELSE "ArrowRight"
        parentId == ParentKey(currentElement)
        childElements ==
            SelectSeq(S.focusableElements, LAMBDA el : ChildOfKey(el) = parentId /\ IsVisible(el))
    IN  IF direction # navigationDirection THEN FALSE
        ELSE IF parentId = "" THEN FALSE
        ELSE childElements # <<>>

shouldNavigateToChildren(S, currentElement, direction) ==
    LET navigationDirection == IF parentPosition = "right" THEN "ArrowLeft" ELSE "ArrowRight"
        parentId == ParentKey(currentElement)
        childElements ==
            SelectSeq(S.focusableElements, LAMBDA el : ChildOfKey(el) = parentId /\ IsVisible(el))
    IN  IF direction # navigationDirection THEN FALSE
        ELSE IF parentId = "" THEN FALSE
        ELSE IF childElements = <<>> THEN FALSE
        ELSE LET parentRect == getRect(currentElement)
                 childRect == getRect(childElements[1])
             IN  IF parentPosition = "right"
                 THEN childRect.right <= parentRect.left + PositionTolerance
                 ELSE childRect.left >= parentRect.right - PositionTolerance

\* focusChild that always takes the first child
focusChildFirstAlways(S, childElements, parentId, bad) ==
    LET targetChild == First(childElements)
    IN  IF targetChild = None THEN [ok |-> FALSE, st |-> S]
        ELSE IF ~IsVisible(targetChild) THEN [ok |-> FALSE, st |-> S]
        ELSE IF targetChild = bad THEN [ok |-> FALSE, st |-> [S EXCEPT !.failed = TRUE]]
        ELSE [ok |-> TRUE,
              st |-> [PlaceFocus(S, targetChild, bad, "drill") EXCEPT
                        !.lastParentMap[parentId] = targetChild]]

\* [ok |-> a child was focused, st |-> the state afterwards]
focusChild(S, childElements, parentId, bad) ==
    LET lastVisitedChild == S.lastParentMap[parentId]
        targetChild == IF lastVisitedChild # None /\ lastVisitedChild \in Range(childElements)
                       THEN lastVisitedChild
                       ELSE First(childElements)
    IN  IF targetChild = None THEN [ok |-> FALSE, st |-> S]
        ELSE IF ~IsVisible(targetChild) THEN [ok |-> FALSE, st |-> S]
        ELSE IF targetChild = bad THEN [ok |-> FALSE, st |-> [S EXCEPT !.failed = TRUE]]
        ELSE [ok |-> TRUE,
              st |-> [PlaceFocus(S, targetChild, bad, "drill") EXCEPT
                        !.lastParentMap[parentId] = targetChild]]

navigateToChildren(S, parentElement, bad) ==
    LET parentId == ParentKey(parentElement)
        childElements ==
            SelectSeq(S.focusableElements,
                      LAMBDA el : ChildOfKey(el) = parentId /\ IsVisible(el) /\ el \notin styleHidden)
        fallbackChildren ==
            SelectSeq(S.focusableElements, LAMBDA el : ChildOfKey(el) = parentId /\ IsVisible(el))
    IN  IF parentId = "" THEN [ok |-> FALSE, st |-> S]
        ELSE IF childElements = <<>>
             THEN IF fallbackChildren = <<>> THEN [ok |-> FALSE, st |-> S]
                  ELSE focusChild(S, fallbackChildren, parentId, bad)
             ELSE focusChild(S, childElements, parentId, bad)

---------------------------------------------------------------------------
(* Commands *)

\* handleDirectionalNavigation that forgets the index when it finds nothing
handleDirectionalNavigationForgets(S, currentElement, direction, bad) ==
    LET startElement ==
            IF currentElement # None /\ Includes(S, currentElement) THEN currentElement
            ELSE First(SelectSeq(S.focusableElements, IsVisible))
        drill == IF shouldNavigateToChildren(S, startElement, direction)
                 THEN navigateToChildren(S, startElement, bad)
                 ELSE [ok |-> FALSE, st |-> S]
        S1 == [drill.st EXCEPT !.from = startElement]
        parentElement == checkParentNavigation(S1, startElement, direction)
        nextElement == findNextFocusable(S1, startElement, direction)
    IN  IF startElement = None THEN S
        ELSE IF drill.ok THEN S1
        ELSE IF parentElement # None THEN PlaceFocus(S1, parentElement, bad, "escape")
        ELSE IF nextElement # None THEN PlaceFocus(S1, nextElement, bad, "spatial")
        ELSE [S1 EXCEPT !.currentFocusIndex = 0 - 1]

\* handleDirectionalNavigation that ends at a head in the drill-in direction
\* whether or not a child was focused
handleDirectionalNavigationHeadEnds(S, currentElement, direction, bad) ==
    LET startElement ==
            IF currentElement # None /\ Includes(S, currentElement) THEN currentElement
            ELSE First(SelectSeq(S.focusableElements, IsVisible))
        drillDirection == IF parentPosition = "right" THEN "ArrowLeft" ELSE "ArrowRight"
        drill == IF shouldNavigateToChildren(S, startElement, direction)
                 THEN navigateToChildren(S, startElement, bad)
                 ELSE [ok |-> FALSE, st |-> S]
        S1 == [drill.st EXCEPT !.from = startElement]
        parentElement == checkParentNavigation(S1, startElement, direction)
        nextElement == findNextFocusable(S1, startElement, direction)
    IN  IF startElement = None THEN S
        ELSE IF drill.ok THEN S1
        ELSE IF ParentKey(startElement) # "" /\ direction = drillDirection THEN S1
        ELSE IF parentElement # None THEN PlaceFocus(S1, parentElement, bad, "escape")
        ELSE IF nextElement # None THEN PlaceFocus(S1, nextElement, bad, "spatial")
        ELSE S1

handleDirectionalNavigation(S, currentElement, direction, bad) ==
    LET startElement ==
            IF currentElement # None /\ Includes(S, currentElement) THEN currentElement
            ELSE First(SelectSeq(S.focusableElements, IsVisible))
        drill == IF shouldNavigateToChildren(S, startElement, direction)
                 THEN navigateToChildren(S, startElement, bad)
                 ELSE [ok |-> FALSE, st |-> S]
        S1 == [drill.st EXCEPT !.from = startElement]
        parentElement == checkParentNavigation(S1, startElement, direction)
        nextElement == findNextFocusable(S1, startElement, direction)
    IN  IF startElement = None THEN S
        ELSE IF drill.ok THEN S1
        ELSE IF parentElement # None THEN PlaceFocus(S1, parentElement, bad, "escape")
        ELSE IF nextElement # None THEN PlaceFocus(S1, nextElement, bad, "spatial")
        ELSE S1

\* handleEnterKey without the `!navigatedToChild` test: the callback runs
\* after a drill-in too
handleEnterKeyAlwaysSelects(S, currentElement, bad) ==
    IF currentElement # None /\ Includes(S, currentElement)
    THEN LET nav == navigateToChildren(S, currentElement, bad)
         IN  [nav.st EXCEPT !.from = currentElement, !.selected = currentElement]
    ELSE S

\* handleEnterKey that keeps the callback for elements that are not heads
handleEnterKeySkipsHeads(S, currentElement, bad) ==
    IF currentElement # None /\ Includes(S, currentElement)
    THEN LET nav == navigateToChildren(S, currentElement, bad)
             S1 == [nav.st EXCEPT !.from = currentElement]
         IN  IF nav.ok \/ ParentKey(currentElement) # "" THEN S1
             ELSE [S1 EXCEPT !.selected = currentElement, !.kind = "select"]
    ELSE S

handleEnterKey(S, currentElement, bad) ==
    IF currentElement # None /\ Includes(S, currentElement)
    THEN LET nav == navigateToChildren(S, currentElement, bad)
             S1 == [nav.st EXCEPT !.from = currentElement]
         IN  IF nav.ok THEN S1
             ELSE [S1 EXCEPT !.selected = currentElement, !.kind = "select"]
    ELSE S

\* triggerBack that goes through the escape rule of the direction commands:
\* only from a child at the edge of its group, to a head on the parent side
triggerBackAtEdgeOnly(S, bad) ==
    LET currentElement == IF S.activeElement # None THEN S.activeElement ELSE S.docActive
        parentElement ==
            checkParentNavigation(S, currentElement,
                                  IF parentPosition = "right" THEN "ArrowRight" ELSE "ArrowLeft")
    IN  IF currentElement = None \/ ~Includes(S, currentElement) THEN S
        ELSE IF parentElement = None THEN [S EXCEPT !.from = currentElement]
        ELSE PlaceFocus([S EXCEPT !.from = currentElement], parentElement, bad, "back")

triggerBack(S, bad) ==
    LET currentElement == IF S.activeElement # None THEN S.activeElement ELSE S.docActive
        childOfValue == ChildOfKey(currentElement)
        parentElements ==
            SelectSeq(S.focusableElements, LAMBDA el : ParentKey(el) = childOfValue /\ IsVisible(el))
    IN  IF currentElement = None \/ ~Includes(S, currentElement) THEN S
        ELSE IF childOfValue = "" THEN [S EXCEPT !.from = currentElement]
        ELSE IF parentElements = <<>> THEN [S EXCEPT !.from = currentElement]
        ELSE PlaceFocus([S EXCEPT !.from = currentElement], parentElements[1], bad, "back")

---------------------------------------------------------------------------
(* Actions *)

Commit(R) ==
    /\ focusableElements' = R.focusableElements
    /\ currentFocusIndex' = R.currentFocusIndex
    /\ initialized' = R.initialized
    /\ focusEventHandlers' = R.focusEventHandlers
    /\ previouslyFocusedElement' = R.previouslyFocusedElement
    /\ lastParentMap' = R.lastParentMap
    /\ activeElement' = R.activeElement
    /\ decorated' = R.decorated
    /\ docActive' = R.docActive
    /\ pending100' = R.pending100
    /\ pending300' = R.pending300

\* an operation had an effect: it changed engine state, invoked the onSelect
\* callback, or caught a focus() error
Effect(R) ==
    \/ R.selected # None
    \/ R.failed
    \/ [R EXCEPT !.kind = "none", !.from = None] # Cur

\* `last` is the most recent operation and its outcome: the element it
\* started from, the branch that placed focus ("none" when no branch did),
\* whether focus() threw, and the argument onSelect got
Log(op, dir, R) ==
    [op |-> op, dir |-> dir, from |-> R.from, kind |-> R.kind,
     failed |-> R.failed, selected |-> R.selected, inner |-> R.inner]

HostLog == [op |-> "host", dir |-> "", from |-> None, kind |-> "none",
            failed |-> FALSE, selected |-> None, inner |-> NoInner]

ScenIdle == [step |-> "idle", el |-> None]

NoProbe == [current |-> None, direction |-> "", result |-> None]

\* the fields of a second engine right after `new FocusEngine({autoInit:
\* false})`; the document's focus and classes are not kept in it.  A page
\* with one engine has a second whose selector matches nothing.
NoOther ==
    [scope                    |-> {},
     focusableElements        |-> <<>>,
     currentFocusIndex        |-> 0 - 1,
     initialized              |-> FALSE,
     focusEventHandlers       |-> NoHandlers,
     previouslyFocusedElement |-> None,
     lastParentMap            |-> NoMap,
     activeElement            |-> None,
     decorated                |-> {},
     docActive                |-> None,
     pending100               |-> 0,
     pending300               |-> 0,
     selected                 |-> None,
     kind                     |-> "none",
     failed                   |-> FALSE,
     from                     |-> None,
     inner                    |-> NoInner]

\* `scen` follows the command sequences that span several commands:
\*   drilled -> second -> escaped -> redrilled: a drill-in, a direction
\*     command that moves focus to another child of the group (el, kept from
\*     then on), an escape or back to a head of the group, a drill-in again;
\*   right -> rightdown: ArrowRight and then ArrowDown by spatial search.
\* A command without any effect leaves it alone, everything else resets it.
Track(op, dir, R) ==
    LET to == R.activeElement
    IN  IF ~Effect(R) THEN scen
        ELSE CASE R.kind = "drill" /\ scen.step = "escaped" ->
                    [step |-> "redrilled", el |-> scen.el]
               [] R.kind = "drill" ->
                    [step |-> "drilled", el |-> to]
               [] /\ scen.step = "drilled" /\ op = "move" /\ R.kind = "spatial"
                  /\ to # scen.el /\ ChildOfKey(to) = ChildOfKey(scen.el) ->
                    [step |-> "second", el |-> to]
               [] /\ scen.step = "second" /\ R.kind \in {"escape", "back"}
                  /\ ParentKey(to) = ChildOfKey(scen.el) ->
                    [step |-> "escaped", el |-> scen.el]
               [] op = "move" /\ dir = "ArrowRight" /\ R.kind = "spatial" ->
                    [step |-> "right", el |-> R.from]
               [] /\ scen.step = "right" /\ op = "move" /\ dir = "ArrowDown"
                  /\ R.kind = "spatial" ->
                    [step |-> "rightdown", el |-> scen.el]
               [] OTHER -> ScenIdle

DomUnchanged == UNCHANGED <<layout, dom, hidden, styleHidden, found, other>>

EngineUnchanged ==
    UNCHANGED <<focusableElements, currentFocusIndex, initialized, focusEventHandlers,
                previouslyFocusedElement, lastParentMap, activeElement, decorated,
                pending100, pending300, pendingInit, torn>>

\* the engine is constructed over a document that shows fixture l; autoInit
\* (pendingInit) is the caller's choice
InitOf(l) ==
    /\ layout = l
    /\ dom = Fixture.initial
    /\ hidden = {}
    /\ styleHidden = {}
    /\ docActive = None
    /\ decorated = {}
    /\ focusableElements = <<>>
    /\ currentFocusIndex = 0 - 1
    /\ initialized = FALSE
    /\ focusEventHandlers = NoHandlers
    /\ previouslyFocusedElement = None
    /\ lastParentMap = NoMap
    /\ activeElement = None
    /\ pendingInit \in BOOLEAN
    /\ pending100 = 0
    /\ pending300 = 0
    /\ torn = FALSE
    /\ last = HostLog
    /\ scen = ScenIdle
    /\ found = NoProbe
    /\ other = NoOther

\* the constructor's deferred init()
FireInit ==
    /\ pendingInit
    /\ initialized \/ pending300 < MaxPending
    /\ \E R \in {init(Cur)} :
           /\ Commit(R)
           /\ last' = Log("timer0", "", R)
    /\ pendingInit' = FALSE
    /\ scen' = ScenIdle
    /\ UNCHANGED torn
    /\ DomUnchanged

\* The host input of an operation: whether focus() throws on the element
\* the operation chooses first.  R0 is the outcome when nothing throws.
Placed(R0) == R0.kind \in {"initial", "drill", "escape", "spatial", "back"}

CanFail(fail, R0) == fail => Placed(R0)

BadFor(fail, R0) == IF fail THEN R0.activeElement ELSE None

\* init's setTimeout(() => this.setInitialFocus(), 100)
Fire100(fail) ==
    /\ pending100 > 0
    /\ CanFail(fail, setInitialFocus(Cur, None))
    /\ \E R \in {setInitialFocus(Cur, BadFor(fail, setInitialFocus(Cur, None)))} :
           /\ Commit([R EXCEPT !.pending100 = @ - 1])
           /\ last' = Log("timer100", "", R)
    /\ scen' = ScenIdle
    /\ UNCHANGED <<pendingInit, torn>>
    /\ DomUnchanged

\* init's setTimeout(..., 300); it is due after the same init's 100 ms timer
Fire300(fail) ==
    /\ pending300 > pending100
    /\ CanFail(fail, recheckFocus(Cur, None))
    /\ \E R \in {recheckFocus(Cur, BadFor(fail, recheckFocus(Cur, None)))} :
           /\ Commit([R EXCEPT !.pending300 = @ - 1])
           /\ last' = Log("timer300", "", R)
    /\ scen' = ScenIdle
    /\ UNCHANGED <<pendingInit, torn>>
    /\ DomUnchanged

\* public init()
CallInit ==
    /\ initialized \/ pending300 < MaxPending
    /\ \E R \in {init(Cur)} :
           /\ Commit(R)
           /\ last' = Log("init", "", R)
    /\ scen' = ScenIdle
    /\ UNCHANGED <<pendingInit, torn>>
    /\ DomUnchanged

\* public updateFocusableElements()
Refresh ==
    /\ \E R \in {updateFocusableElements(Cur)} :
           /\ Commit(R)
           /\ last' = Log("refresh", "", R)
    /\ scen' = ScenIdle
    /\ UNCHANGED <<pendingInit, torn>>
    /\ DomUnchanged

\* public setInitialFocus()
SetInitialFocus(fail) ==
    /\ CanFail(fail, setInitialFocus(Cur, None))
    /\ \E R \in {setInitialFocus(Cur, BadFor(fail, setInitialFocus(Cur, None)))} :
           /\ Commit(R)
           /\ last' = Log("setInitialFocus", "", R)
    /\ scen' = ScenIdle
    /\ UNCHANGED <<pendingInit, torn>>
    /\ DomUnchanged

\* triggerArrowUp / Down / Left / Right
TriggerArrow(direction, fail) ==
    \E R0 \in {handleDirectionalNavigation(Cur, IF activeElement # None THEN activeElement ELSE docActive,
                                           direction, None)} :
    \E R \in {IF fail
              THEN handleDirectionalNavigation(Cur, IF activeElement # None THEN activeElement ELSE docActive,
                                               direction, BadFor(fail, R0))
              ELSE R0} :
        /\ CanFail(fail, R0)
        /\ Commit(R)
        /\ last' = Log("move", direction, R)
        /\ scen' = Track("move", direction, R)
        /\ UNCHANGED <<pendingInit, torn>>
        /\ DomUnchanged

\* triggerArrow* while the page has a focus listener of its own on the
\* target, registered after the engine's, that issues the direction command
\* `inner`.  focus() dispatches the focus event synchronously: the engine's
\* handler runs, then the page's listener and its command to the end, and
\* only then focus() returns and the outer command makes its assignments
\* (and, after a drill-in, the lastParentMap entry of focusChild).
TriggerArrowReentrant(direction, inner) ==
    \E R0 \in {handleDirectionalNavigation(Cur, IF activeElement # None THEN activeElement ELSE docActive,
                                           direction, None)} :
        /\ Placed(R0)
        /\ IsVisible(R0.activeElement)
        /\ docActive # R0.activeElement
        /\ \E S1 \in {HostFocus(Cur, R0.activeElement)} :
           \E N \in {handleDirectionalNavigation(
                        S1, IF S1.activeElement # None THEN S1.activeElement ELSE S1.docActive,
                        inner, None)} :
           \E A \in {AfterFocus([N EXCEPT !.from = R0.from,
                                          !.inner = [ran |-> TRUE, at |-> R0.activeElement,
                                                     from |-> N.from, to |-> N.activeElement]],
                                 R0.activeElement, R0.kind)} :
           \E R \in {IF R0.kind = "drill"
                     THEN [A EXCEPT !.lastParentMap[ParentKey(R0.from)] = R0.activeElement]
                     ELSE A} :
               /\ Commit(R)
               /\ last' = Log("move", direction, R)
        /\ scen' = ScenIdle
        /\ UNCHANGED <<pendingInit, torn>>
        /\ DomUnchanged

\* triggerEnter
TriggerEnter(fail) ==
    \E R0 \in {handleEnterKey(Cur, IF activeElement # None THEN activeElement ELSE docActive, None)} :
    \E R \in {IF fail
              THEN handleEnterKey(Cur, IF activeElement # None THEN activeElement ELSE docActive,
                                  BadFor(fail, R0))
              ELSE R0} :
        /\ CanFail(fail, R0)
        /\ Commit(R)
        /\ last' = Log("select", "", R)
        /\ scen' = Track("select", "", R)
        /\ UNCHANGED <<pendingInit, torn>>
        /\ DomUnchanged

\* triggerBack
TriggerBack(fail) ==
    \E R0 \in {triggerBack(Cur, None)} :
    \E R \in {IF fail THEN triggerBack(Cur, BadFor(fail, R0)) ELSE R0} :
        /\ CanFail(fail, R0)
        /\ Commit(R)
        /\ last' = Log("back", "", R)
        /\ scen' = Track("back", "", R)
        /\ UNCHANGED <<pendingInit, torn>>
        /\ DomUnchanged

\* destroy()
Destroy ==
    /\ \E R \in {destroy(Cur)} :
           /\ Commit(R)
           /\ last' = Log("destroy", "", R)
    /\ torn' = TRUE
    /\ scen' = ScenIdle
    /\ UNCHANGED pendingInit
    /\ DomUnchanged

\* the user or the host page moves focus onto a rendered element
HostFocusIn(e) ==
    /\ IsVisible(e)
    /\ e \notin other.scope
    /\ docActive # e
    /\ \E R \in {HostFocus(Cur, e)} : Commit(R)
    /\ last' = [HostLog EXCEPT !.op = "focusin", !.from = e]
    /\ scen' = ScenIdle
    /\ UNCHANGED <<pendingInit, torn>>
    /\ DomUnchanged

\* focus leaves every element (document.activeElement is body again)
HostBlur ==
    /\ docActive # None
    /\ docActive' = None
    /\ last' = HostLog
    /\ scen' = ScenIdle
    /\ EngineUnchanged
    /\ DomUnchanged

Without(seq, e) == SelectSeq(seq, LAMBDA x : x # e)

\* The host page changes the document; the engine is not told.
\*   present: an element of the document is removed, a removed one is
\*            appended (it comes back last);
\*   display: display:none on a rendered element, or back; a hidden or
\*            removed element loses focus to the body;
\*   style:   opacity:0, or back: rendered and focusable, but rejected by
\*            the computed-style check of navigateToChildren.
HostMutate(e, change) ==
    /\ <<e, change>> \in Fixture.mutations
    /\ dom' = CASE change = "present" /\ e \in Range(dom) -> Without(dom, e)
                [] change = "present" /\ e \notin Range(dom) -> Append(dom, e)
                [] OTHER -> dom
    /\ hidden' = CASE change = "present" -> hidden \ {e}
                   [] change = "display" /\ e \in hidden -> hidden \ {e}
                   [] change = "display" /\ e \in Range(dom) -> hidden \cup {e}
                   [] OTHER -> hidden
    /\ styleHidden' = CASE change = "present" -> styleHidden \ {e}
                        [] change = "style" /\ e \in styleHidden -> styleHidden \ {e}
                        [] change = "style" /\ e \in Range(dom) -> styleHidden \cup {e}
                        [] OTHER -> styleHidden
    /\ docActive' = IF docActive = e /\ change \in {"present", "display"} THEN None ELSE docActive
    /\ last' = HostLog
    /\ scen' = ScenIdle
    /\ EngineUnchanged
    /\ UNCHANGED <<layout, found, other>>

Next ==
    \/ FireInit
    \/ \E fail \in BOOLEAN : Fire100(fail)
    \/ \E fail \in BOOLEAN : Fire300(fail)
    \/ CallInit
    \/ Refresh
    \/ \E fail \in BOOLEAN : SetInitialFocus(fail)
    \/ \E d \in Dirs, fail \in BOOLEAN : TriggerArrow(d, fail)
    \/ \E fail \in BOOLEAN : TriggerEnter(fail)
    \/ \E fail \in BOOLEAN : TriggerBack(fail)
    \/ Destroy
    \/ \E e \in Elems : HostFocusIn(e)
    \/ HostBlur
    \/ \E e \in Elems, change \in Changes : HostMutate(e, change)

Init == \E l \in Layouts : InitOf(l)

Spec == Init /\ [][Next]_vars

\* one specification per fixture
InitGrid == InitOf(GridFixture)

SpecGrid == InitGrid /\ [][Next]_vars

InitMenuLeft == InitOf(MenuLeftFixture)

SpecMenuLeft == InitMenuLeft /\ [][Next]_vars

InitMenuRight == InitOf(MenuRightFixture)

SpecMenuRight == InitMenuRight /\ [][Next]_vars

InitStagger == InitOf(StaggerFixture)

SpecStagger == InitStagger /\ [][Next]_vars

InitPair == InitOf(PairFixture)

InitBehind == InitOf(BehindFixture)

SpecBehind == InitBehind /\ [][Next]_vars

SpecPair == InitPair /\ [][Next]_vars

\* Two engines on one page: plain elements 1 and 2 in a row match the first
\* engine's selector, element 3 below them the second's; the page hides and
\* shows element 2.
TwoFixture ==
    [position |-> "left",
     initial  |-> <<1, 2, 3>>,
     mutations |-> {<<2, "display">>},
     el       |-> <<LeafEl(Box(0, 0, 100, 100)),
                    LeafEl(Box(120, 0, 100, 100)),
                    LeafEl(Box(0, 120, 100, 100))>>]

InitTwo ==
    /\ layout = TwoFixture
    /\ dom = Fixture.initial
    /\ hidden = {}
    /\ styleHidden = {}
    /\ docActive = None
    /\ decorated = {}
    /\ focusableElements = <<>>
    /\ currentFocusIndex = 0 - 1
    /\ initialized = FALSE
    /\ focusEventHandlers = NoHandlers
    /\ previouslyFocusedElement = None
    /\ lastParentMap = NoMap
    /\ activeElement = None
    /\ pendingInit \in BOOLEAN
    /\ pending100 = 0
    /\ pending300 = 0
    /\ torn = FALSE
    /\ last = HostLog
    /\ scen = ScenIdle
    /\ found = NoProbe
    /\ other = [NoOther EXCEPT !.scope = {3}]

\* the second engine as its methods see it, on the document as it is now
OtherCur == [other EXCEPT !.docActive = docActive, !.decorated = decorated]

OtherOps == {"init", "timer100", "timer300", "setInitialFocus", "move", "select", "destroy"}

\* an operation or deferred step of the second engine
OtherOp(op, direction) ==
    /\ op = "init" => (other.initialized \/ other.pending300 < MaxPending)
    /\ op = "timer100" => other.pending100 > 0
    /\ op = "timer300" => other.pending300 > other.pending100
    /\ op # "move" => direction = "ArrowUp"
    /\ \E R \in {CASE op = "init" -> init(OtherCur)
                   [] op = "timer100" ->
                        [setInitialFocus(OtherCur, None) EXCEPT !.pending100 = @ - 1]
                   [] op = "timer300" ->
                        [recheckFocus(OtherCur, None) EXCEPT !.pending300 = @ - 1]
                   [] op = "setInitialFocus" -> setInitialFocus(OtherCur, None)
                   [] op = "move" ->
                        handleDirectionalNavigation(
                            OtherCur,
                            IF other.activeElement # None THEN other.activeElement ELSE docActive,
                            direction, None)
                   [] op = "select" ->
                        handleEnterKey(
                            OtherCur,
                            IF other.activeElement # None THEN other.activeElement ELSE docActive,
                            None)
                   [] OTHER -> destroy(OtherCur)} :
           /\ other' = [R EXCEPT !.docActive = None, !.decorated = {}, !.selected = None,
                                 !.kind = "none", !.failed = FALSE, !.from = None]
           /\ docActive' = R.docActive
           /\ decorated' = R.decorated
           /\ last' = [Log(op, IF op = "move" THEN direction ELSE "", R) EXCEPT !.op = "other"]
    /\ scen' = ScenIdle
    /\ UNCHANGED <<focusableElements, currentFocusIndex, initialized, focusEventHandlers,
                   previouslyFocusedElement, lastParentMap, activeElement,
                   pending100, pending300, pendingInit, torn>>
    /\ UNCHANGED <<layout, dom, hidden, styleHidden, found>>

\* the user or the page moves focus onto an element of the second engine
OtherFocusIn(e) ==
    /\ IsVisible(e)
    /\ e \in other.scope
    /\ docActive # e
    /\ \E R \in {HostFocus(OtherCur, e)} :
           /\ other' = [R EXCEPT !.docActive = None, !.decorated = {}]
           /\ docActive' = R.docActive
           /\ decorated' = R.decorated
    /\ last' = [HostLog EXCEPT !.op = "otherFocusin", !.from = e]
    /\ scen' = ScenIdle
    /\ UNCHANGED <<focusableElements, currentFocusIndex, initialized, focusEventHandlers,
                   previouslyFocusedElement, lastParentMap, activeElement,
                   pending100, pending300, pendingInit, torn>>
    /\ UNCHANGED <<layout, dom, hidden, styleHidden, found>>

NextTwo ==
    \/ Next
    \/ \E op \in OtherOps, d \in Dirs : OtherOp(op, d)
    \/ \E e \in Elems : OtherFocusIn(e)

SpecTwo == InitTwo /\ [][NextTwo]_vars

\* the same page with focus listeners of its own that issue commands
NextReentrant ==
    \/ Next
    \/ \E d \in Dirs, inner \in Dirs : TriggerArrowReentrant(d, inner)

SpecReentrant == InitPair /\ [][NextReentrant]_vars

\* The spatial search on its own: the engine has read a drawn document with
\* updateFocusableElements(), the first or the second element of which may
\* be unrendered, and findNextFocusable is called from the first element in
\* each direction.
InitFind ==
    /\ layout \in FreeFixtures
    /\ dom = Fixture.initial
    /\ hidden \in {{}, {dom[1]}, {dom[2]}}
    /\ styleHidden = {}
    /\ docActive = None
    /\ decorated = {}
    /\ focusableElements = dom
    /\ currentFocusIndex = 0 - 1
    /\ initialized = FALSE
    /\ focusEventHandlers = [el \in Range(dom) |-> IndexOf(dom, el)]
    /\ previouslyFocusedElement = None
    /\ lastParentMap = NoMap
    /\ activeElement = None
    /\ pendingInit = FALSE
    /\ pending100 = 0
    /\ pending300 = 0
    /\ torn = FALSE
    /\ last = HostLog
    /\ scen = ScenIdle
    /\ found = NoProbe
    /\ other = NoOther

\* findNextFocusable(currentElement, direction), called directly
FindNext(currentElement, direction) ==
    /\ found' = [current |-> currentElement, direction |-> direction,
                 result |-> findNextFocusable(Cur, currentElement, direction)]
    /\ EngineUnchanged
    /\ UNCHANGED <<layout, dom, hidden, styleHidden, docActive, last, scen, other>>

NextFind == \E d \in Dirs : FindNext(First(focusableElements), d)

SpecFind == InitFind /\ [][NextFind]_vars

---------------------------------------------------------------------------
(* Properties *)

\* what the claims call the focused region after an operation: the engine's
\* activeElement, which the document's focus agrees with
FocusedOn(e) == activeElement = e /\ docActive = e

Commands == {"move", "select", "back"}

\* C1: in every reachable state currentFocusIndex is -1 or a valid index
\* (0 <= currentFocusIndex < length) of the current focusableElements.
C1_IndexInRange ==
    \/ currentFocusIndex = 0 - 1
    \/ 0 <= currentFocusIndex /\ currentFocusIndex < Len(focusableElements)

\* C2: in every reachable state activeElement is null exactly when
\* currentFocusIndex is -1, and otherwise focusableElements[currentFocusIndex]
\* is activeElement.
C2_ActiveMatchesIndex ==
    /\ activeElement = None <=> currentFocusIndex = 0 - 1
    /\ currentFocusIndex # 0 - 1 =>
            /\ 0 <= currentFocusIndex /\ currentFocusIndex < Len(focusableElements)
            /\ focusableElements[currentFocusIndex + 1] = activeElement

\* teardown has run and no init() has run since
Destroyed == torn /\ ~initialized

CommandStep ==
    \E fail \in BOOLEAN :
        \/ \E d \in Dirs : TriggerArrow(d, fail)
        \/ TriggerEnter(fail)
        \/ TriggerBack(fail)

DeferredStep == FireInit \/ \E fail \in BOOLEAN : Fire100(fail) \/ Fire300(fail)

\* C3: after destroy() every command (the four arrows, enter, back) leaves
\* currentFocusIndex, activeElement, the decorated element, the document's
\* focus and lastParentMap unchanged and invokes no onSelect callback.
C3_CommandsAfterTeardown ==
    [][(Destroyed /\ CommandStep) =>
            /\ UNCHANGED <<currentFocusIndex, activeElement, decorated, docActive, lastParentMap>>
            /\ last' # last => last'.selected = None]_vars

\* C4: a deferred step (the constructor's init, init's initial focus, init's
\* re-check) that fires after destroy() changes neither focusableElements,
\* currentFocusIndex, activeElement, the decorated element nor the
\* document's focus.
C4_DeferredAfterTeardown ==
    [][(Destroyed /\ DeferredStep) =>
            UNCHANGED <<focusableElements, currentFocusIndex, activeElement, decorated, docActive>>]_vars

\* C5: after a drill-in, a direction command that moves focus to a second
\* child of the group, an escape to the group head and another drill-in,
\* the focused element is that second child.
C5_MemoryAfterEscape == scen.step = "redrilled" => FocusedOn(scen.el)

\* the visible children of head h in the current focusableElements
VisibleChildren(h) ==
    {c \in Range(focusableElements) : ChildOfKey(c) = ParentKey(h) /\ IsVisible(c)}

IsHead(h) == h # None /\ ParentKey(h) # ""

\* C6: when enter is issued on a group head that has at least one visible
\* child and the document places focus, onSelect is not invoked and the
\* focused element afterwards is a visible child of that group, wherever
\* the children lie.
C6_SelectDrillsIn ==
    (/\ last.op = "select" /\ ~last.failed
     /\ IsHead(last.from) /\ VisibleChildren(last.from) # {})
    => /\ last.selected = None
       /\ activeElement \in VisibleChildren(last.from)
       /\ docActive = activeElement

\* enter on a head drilled into a child that lies on the far side of the head
C6_Witness ==
    /\ last.op = "select" /\ last.kind = "drill" /\ IsHead(last.from)
    /\ FocusedOn(activeElement)
    /\ activeElement \in VisibleChildren(last.from)
    /\ getRect(activeElement).right <= getRect(last.from).left
    /\ parentPosition = "left"

\* the direction that leads from a child back to its head
EscapeDir == IF parentPosition = "right" THEN "ArrowRight" ELSE "ArrowLeft"

VisibleSiblings(c) ==
    {x \in Range(focusableElements) \ {c} : ChildOfKey(x) = ChildOfKey(c) /\ IsVisible(x)}

VisibleHeads(c) ==
    {h \in Range(focusableElements) : ParentKey(h) = ChildOfKey(c) /\ IsVisible(h)}

IsChild(c) == c # None /\ ChildOfKey(c) # ""

\* box r reaches further to the escape side than box c
Beyond(r, c) == IF parentPosition = "right" THEN r.right > c.right ELSE r.left < c.left

\* box r lies wholly on the escape side of box c
OnEscapeSide(r, c) == IF parentPosition = "right" THEN r.left >= c.right ELSE r.right <= c.left

\* C7: a move in the escape direction (left for parent side left, right for
\* parent side right) from a visible child that has no visible sibling
\* further to that side and whose visible group head lies on that side
\* (head.right <= child.left, resp. head.left >= child.right) focuses a
\* visible head of the group.
C7_EscapeToHead ==
    (/\ last.op = "move" /\ last.dir = EscapeDir /\ ~last.failed
     /\ IsChild(last.from) /\ IsVisible(last.from)
     /\ \A x \in VisibleSiblings(last.from) : ~Beyond(getRect(x), getRect(last.from))
     /\ VisibleHeads(last.from) # {}
     /\ \A h \in VisibleHeads(last.from) : OnEscapeSide(getRect(h), getRect(last.from)))
    => /\ activeElement \in VisibleHeads(last.from)
       /\ docActive = activeElement

\* some visible sibling lies to the left of child c in c's row
HasLeftSibling(c) ==
    \E x \in VisibleSiblings(c) :
        /\ getRect(x).right <= getRect(c).left
        /\ getRect(x).bottom > getRect(c).top
        /\ getRect(x).top < getRect(c).bottom

\* the last operation was ArrowLeft from a visible child that is not at the
\* left edge of its sibling group, with the heads on the left
LeftFromInnerChild ==
    /\ parentPosition = "left"
    /\ last.op = "move" /\ last.dir = "ArrowLeft"
    /\ IsChild(last.from) /\ IsVisible(last.from)
    /\ HasLeftSibling(last.from)

\* C8 as stated: ArrowLeft from a child that is not at the left edge of its
\* sibling group never moves focus to that child's group head.
C8_InnerChildNeverReachesHead ==
    LeftFromInnerChild =>
        ~(last.kind \in {"escape", "spatial"} /\ ParentKey(activeElement) = ChildOfKey(last.from))

\* C8 amended: ArrowLeft from a child that is not at the left edge of its
\* sibling group never takes the escape rule: it is the plain spatial search
\* from that child, so focus moves exactly where findNextFocusable leads
\* (to the head only if the head is the nearest candidate) or stays.
C8_InnerChildMovesSpatially ==
    (LeftFromInnerChild /\ ~last.failed) =>
        LET nextElement == findNextFocusable(Cur, last.from, "ArrowLeft")
        IN  IF nextElement = None
            THEN last.kind = "none"
            ELSE last.kind = "spatial" /\ activeElement = nextElement

\* the spatial search took an inner child to its own group head
C8_Witness ==
    /\ LeftFromInnerChild /\ last.kind = "spatial"
    /\ ParentKey(activeElement) = ChildOfKey(last.from)
    /\ FocusedOn(activeElement)

\* the reference grid: item1..item4 registered and rendered
GridReady ==
    /\ layout = GridFixture
    /\ {1, 2, 3, 4} \subseteq Range(focusableElements)
    /\ \A e \in {1, 2, 3, 4} : IsVisible(e)

\* the last operation was an arrow command from element e that the document
\* did not refuse
MovedFrom(e, direction) ==
    last.op = "move" /\ last.dir = direction /\ last.from = e /\ ~last.failed

\* C9: in the reference grid, ArrowRight from item1 focuses item2, ArrowDown
\* from item1 focuses item3, and ArrowRight followed by ArrowDown from item1
\* focuses item4.
C9_GridMoves ==
    GridReady =>
        /\ MovedFrom(1, "ArrowRight") => FocusedOn(2)
        /\ MovedFrom(1, "ArrowDown") => FocusedOn(3)
        /\ (/\ scen.step \in {"right", "rightdown"} /\ scen.el = 1
            /\ last.op = "move" /\ last.dir = "ArrowDown" /\ ~last.failed) => FocusedOn(4)

\* ArrowRight and then ArrowDown took focus from item1 to item4
C9_Witness ==
    /\ GridReady /\ scen.step = "rightdown" /\ scen.el = 1
    /\ MovedFrom(2, "ArrowDown") /\ FocusedOn(4)

PlacedKinds == {"drill", "escape", "spatial", "back"}

\* C10: an element the host added after the last updateFocusableElements()
\* is never focused by a command: a command that places focus places it on
\* an element of focusableElements.  In the reference grid with item5 in
\* the document, ArrowRight from item4 leaves focus on item4 while item5 is
\* not in focusableElements, and focuses item5 once it is.
C10_AddedElementNeedsRefresh ==
    /\ (last.op \in Commands /\ last.kind \in PlacedKinds) =>
            /\ activeElement \in Range(focusableElements)
            /\ docActive = activeElement \/ ~IsVisible(activeElement)
    /\ (GridReady /\ IsVisible(5) /\ MovedFrom(4, "ArrowRight")) =>
            IF 5 \in Range(focusableElements)
            THEN FocusedOn(5)
            ELSE /\ last.kind = "none"
                 /\ activeElement = 4 \/ (activeElement = None /\ docActive = 4)

\* item5 was added and registered by a refresh, and ArrowRight from item4
\* reached it
C10_Witness ==
    /\ GridReady /\ MovedFrom(4, "ArrowRight") /\ last.kind = "spatial"
    /\ 5 \in Range(focusableElements) /\ FocusedOn(5)

\* C11: whatever the registered elements, their boxes, their visibility, the
\* current element and the direction, findNextFocusable returns neither the
\* current element nor an element that is not rendered.
C11_NeverCurrentNeverHidden ==
    found.current # None =>
        /\ found.result # found.current
        /\ found.result # None => IsVisible(found.result)

\* a search that passed over an unrendered element whose box in the
\* document is nearer than the returned one's
C11_Witness ==
    /\ found.current = 1
    /\ found.result = 3
    /\ hidden = {2}
    /\ IsSuitable(getRect(1), Fixture.el[2].rect, found.direction)
    /\ Distance(getRect(1), Fixture.el[2].rect, found.direction)
         < Distance(getRect(1), getRect(3), found.direction)

\* the centre of box b lies strictly on the travel side of the centre of a
TravelSide(a, b, direction) ==
    CASE direction = "ArrowRight" -> 2 * b.left + b.width > 2 * a.left + a.width
      [] direction = "ArrowLeft" -> 2 * b.left + b.width < 2 * a.left + a.width
      [] direction = "ArrowUp" -> 2 * b.top + b.height < 2 * a.top + a.height
      [] OTHER -> 2 * b.top + b.height > 2 * a.top + a.height

\* the spans of a and b on the axis across the direction intersect
SpansIntersect(a, b, direction) ==
    IF direction \in {"ArrowUp", "ArrowDown"}
    THEN \E x \in (2 * a.left + 1) .. (2 * a.right - 1) : 2 * b.left < x /\ x < 2 * b.right
    ELSE \E y \in (2 * a.top + 1) .. (2 * a.bottom - 1) : 2 * b.top < y /\ y < 2 * b.bottom

\* C12: every element findNextFocusable returns lies strictly on the travel
\* side of the current element by centre (dx > 0 for right, dx < 0 for left,
\* dy < 0 for up, dy > 0 for down), and its span on the cross axis
\* intersects the current rectangle's span.
C12_TravelSideAndSpan ==
    found.result # None =>
        /\ TravelSide(getRect(found.current), getRect(found.result), found.direction)
        /\ SpansIntersect(getRect(found.current), getRect(found.result), found.direction)

\* a search that returned an element although another rendered element on
\* the travel side, whose span misses the current one's, is nearer
C12_Witness ==
    /\ found.result = 3
    /\ IsVisible(2)
    /\ TravelSide(getRect(found.current), getRect(2), found.direction)
    /\ ~SpansIntersect(getRect(found.current), getRect(2), found.direction)
    /\ Distance(getRect(found.current), getRect(2), found.direction)
         < Distance(getRect(found.current), getRect(3), found.direction)

\* the registered elements a search from `current` may return
Eligible(current, direction) ==
    {e \in Range(focusableElements) :
        /\ e # current
        /\ IsVisible(e)
        /\ TravelSide(getRect(current), getRect(e), direction)
        /\ SpansIntersect(getRect(current), getRect(e), direction)}

\* C13: the result of findNextFocusable is fixed by its inputs: it is an
\* eligible candidate of least final distance, and among the eligible
\* candidates that share the least distance it is the first one in the
\* order of focusableElements.
C13_FirstOfNearest ==
    found.result # None =>
        \A e \in Eligible(found.current, found.direction) :
            LET de == Distance(getRect(found.current), getRect(e), found.direction)
                dr == Distance(getRect(found.current), getRect(found.result), found.direction)
            IN  /\ dr <= de
                /\ dr = de => IndexOf(focusableElements, found.result) <= IndexOf(focusableElements, e)

\* a search with two eligible candidates in different boxes at the same
\* least distance
C13_Witness ==
    /\ found.result = 2
    /\ 3 \in Eligible(found.current, found.direction)
    /\ getRect(2) # getRect(3)
    /\ Distance(getRect(found.current), getRect(2), found.direction)
         = Distance(getRect(found.current), getRect(3), found.direction)

\* C14: in every reachable state at most one element carries the focus
\* class, and updateFocusClass applied twice in a row to the same element
\* leaves exactly that element carrying it.
C14_OneDecorated ==
    /\ Cardinality(decorated) <= 1
    /\ \A e \in Range(focusableElements) :
           updateFocusClass(updateFocusClass(Cur, e), e).decorated = {e}

\* a move whose target got the class twice in a row, from its focus handler
\* and from the command itself, while another element carried it before
C14_Witness ==
    /\ last.op = "move"
    /\ last.kind = "spatial"
    /\ ~last.failed
    /\ last.from # activeElement
    /\ docActive = activeElement
    /\ activeElement \in DOMAIN focusEventHandlers
    /\ decorated = {activeElement}

\* the operations that choose a target and call focus() on it
Placing == {"move", "select", "back", "setInitialFocus", "timer100", "timer300"}

\* C15: when focus() throws on the target chosen by a direction command,
\* select, back or setInitialFocus, the operation completes and leaves
\* currentFocusIndex, activeElement, the decorated element and lastParentMap
\* as they were before it.
C15_FailedPlacementChangesNothing ==
    [][(last'.op \in Placing /\ last'.failed)
        => UNCHANGED <<currentFocusIndex, activeElement, decorated, lastParentMap>>]_vars

\* a direction command from startElement finds nothing in this state: no
\* child to drill into, no parent to escape to, no spatial candidate
NothingFound(startElement, direction) ==
    \/ startElement = None
    \/ /\ \/ ~shouldNavigateToChildren(Cur, startElement, direction)
           \/ ~navigateToChildren(Cur, startElement, None).ok
       /\ checkParentNavigation(Cur, startElement, direction) = None
       /\ findNextFocusable(Cur, startElement, direction) = None

\* C16: a direction command that finds no drill-in target, no escape target
\* and no eligible spatial candidate leaves currentFocusIndex,
\* activeElement, the decorated element and lastParentMap unchanged.
C16_NothingFoundChangesNothing ==
    [][(last'.op = "move" /\ NothingFound(last'.from, last'.dir))
        => UNCHANGED <<currentFocusIndex, activeElement, decorated, lastParentMap>>]_vars

\* ArrowRight from the focused child 2, which has nothing to its right, no
\* children of its own and its head on the other side
C16_Witness ==
    /\ last.op = "move"
    /\ last.dir = "ArrowRight"
    /\ last.from = 2
    /\ last.kind = "none"
    /\ NothingFound(2, "ArrowRight")
    /\ FocusedOn(2)
    /\ decorated = {2}
    /\ lastParentMap["k"] = 2

\* the element the claim lets a direction command start from
ClaimedStart ==
    IF docActive # None /\ docActive \in Range(focusableElements) THEN docActive
    ELSE IF currentFocusIndex >= 0 /\ currentFocusIndex < Len(focusableElements)
         THEN focusableElements[currentFocusIndex + 1]
         ELSE First(SelectSeq(focusableElements, IsVisible))

\* C17: a direction command starts from the document's focused element if
\* that is a registered element; otherwise from the element at the
\* remembered currentFocusIndex; otherwise from the first rendered element
\* in the order of focusableElements.
C17_StartElement ==
    [][last'.op = "move" => last'.from = ClaimedStart]_vars

\* the element enter and back act on
CurrentElement == IF activeElement # None THEN activeElement ELSE docActive

\* C18: enter on a registered element that is not a head, or whose group
\* has no visible child, invokes onSelect once with that element and leaves
\* currentFocusIndex, activeElement and lastParentMap unchanged.
C18_SelectWithoutDrillIn ==
    [][(/\ last'.op = "select"
        /\ CurrentElement \in Range(focusableElements)
        /\ ~IsHead(CurrentElement) \/ VisibleChildren(CurrentElement) = {})
        => /\ last'.selected = CurrentElement
           /\ UNCHANGED <<currentFocusIndex, activeElement, lastParentMap>>]_vars

\* enter on the focused head while its only child is registered but hidden
C18_Witness ==
    /\ last.op = "select"
    /\ last.from = 1
    /\ last.selected = 1
    /\ IsHead(1)
    /\ 2 \in Range(focusableElements)
    /\ VisibleChildren(1) = {}
    /\ FocusedOn(1)

\* C19: back on a registered child whose group has a visible head focuses
\* a visible head of that group, whether or not the child is at the edge of
\* its group and wherever the head lies; back on anything else (not a
\* child, or no visible head) changes nothing in the engine or the
\* document's focus.
C19_Back ==
    [][last'.op = "back" =>
        IF /\ CurrentElement \in Range(focusableElements)
           /\ IsChild(CurrentElement)
           /\ VisibleHeads(CurrentElement) # {}
        THEN ~last'.failed =>
                /\ activeElement' \in VisibleHeads(CurrentElement)
                /\ docActive' = activeElement'
                /\ currentFocusIndex' = IndexOf(focusableElements, activeElement')
        ELSE UNCHANGED <<focusableElements, currentFocusIndex, initialized, focusEventHandlers,
                         previouslyFocusedElement, lastParentMap, activeElement, decorated,
                         docActive>>]_vars

\* back from child 1, which has a sibling to its left in its row, reached
\* the head
C19_Witness ==
    /\ last.op = "back"
    /\ last.kind = "back"
    /\ ~last.failed
    /\ last.from = 1
    /\ IsChild(1)
    /\ ~isElementAtLeftEdge(1, SelectSeq(focusableElements,
                                         LAMBDA el : ChildOfKey(el) = ChildOfKey(1) /\ IsVisible(el)))
    /\ FocusedOn(2)
    /\ IsHead(2)

\* the first rendered element in the order of focusableElements, or the
\* element at index 0 when none is rendered
InitialTarget ==
    LET fe == focusableElements
        rendered == {i \in 1 .. Len(fe) : IsVisible(fe[i])}
    IN  IF rendered = {} THEN fe[1]
        ELSE fe[CHOOSE i \in rendered : \A j \in rendered : i <= j]

\* C20: setInitialFocus over a non-empty focusableElements makes the first
\* rendered element (the element at index 0 when none is rendered) the
\* focused one and sets currentFocusIndex to its index; over an empty list
\* it changes nothing.
C20_InitialFocus ==
    [][(last'.op \in {"setInitialFocus", "timer100"} /\ ~last'.failed) =>
        IF focusableElements = <<>>
        THEN UNCHANGED <<focusableElements, currentFocusIndex, initialized, focusEventHandlers,
                         previouslyFocusedElement, lastParentMap, activeElement, decorated,
                         docActive>>
        ELSE /\ activeElement' = InitialTarget
             /\ currentFocusIndex' = IndexOf(focusableElements, InitialTarget)
             /\ decorated' = {InitialTarget}
             /\ IsVisible(InitialTarget) => docActive' = InitialTarget]_vars

\* setInitialFocus while element 0 is hidden took the next one
C20_Witness ==
    /\ last.op = "setInitialFocus"
    /\ ~last.failed
    /\ focusableElements = <<1, 2>>
    /\ hidden = {1}
    /\ FocusedOn(2)
    /\ currentFocusIndex = 1

\* C21: setInitialFocus, called directly or by init's 100 ms timer, while a
\* registered element holds the document's focus leaves the document's
\* focus, currentFocusIndex and activeElement unchanged.
C21_InitialFocusOnlyWhenUnfocused ==
    [][(/\ last'.op \in {"setInitialFocus", "timer100"}
        /\ docActive # None
        /\ docActive \in Range(focusableElements))
        => UNCHANGED <<docActive, currentFocusIndex, activeElement>>]_vars

\* C22: updateFocusableElements replaces focusableElements without moving
\* focus: the document's focus, activeElement and the decorated element are
\* the same after it as before it.
C22_RefreshKeepsFocus ==
    [][last'.op = "refresh" => UNCHANGED <<docActive, activeElement, decorated>>]_vars

\* C23: when the document reports focus on an element r that the engine
\* did not place it on, and the engine is not destroyed: if r is registered,
\* afterwards currentFocusIndex is r's index in focusableElements,
\* activeElement is r and r alone is decorated; if r is not registered (it
\* was dropped by the latest refresh, or never seen), the engine's state is
\* unchanged.
C23_HostFocus ==
    [][(last'.op = "focusin" /\ ~Destroyed) =>
        IF last'.from \in Range(focusableElements)
        THEN /\ currentFocusIndex' = IndexOf(focusableElements, last'.from)
             /\ activeElement' = last'.from
             /\ decorated' = {last'.from}
        ELSE UNCHANGED <<focusableElements, currentFocusIndex, initialized, focusEventHandlers,
                         previouslyFocusedElement, lastParentMap, activeElement, decorated>>]_vars

\* the user focused the child after the head had been removed, appended
\* again and the list refreshed: the child is at index 0 now
C23_Witness ==
    /\ last.op = "focusin"
    /\ last.from = 2
    /\ ~Destroyed
    /\ focusableElements = <<2, 1>>
    /\ currentFocusIndex = 0
    /\ activeElement = 2
    /\ decorated = {2}

\* C24: when an operation changes focus, currentFocusIndex and
\* activeElement are set to the target before a page callback that can
\* re-enter the engine runs: a command issued from the callback starts from
\* the target, and what it did is not overwritten when the outer operation
\* resumes.
C24_ReentrantCommand ==
    last.inner.ran =>
        /\ last.inner.from = last.inner.at
        /\ activeElement = last.inner.to
        /\ currentFocusIndex = IndexOf(focusableElements, last.inner.to)

OtherStep == {"other", "otherFocusin"}

\* C25: with two engines over disjoint sets of elements, a step of one engine
\* (an operation, a deferred step, or host focus on one of its elements)
\* leaves the other engine's list, index, active element, decorated element
\* and last-visited-child map as they were, and moves the document's focus
\* nowhere except onto an element of the engine that took the step.
C25_InstancesIndependent ==
    [][/\ last'.op \in OtherStep =>
            /\ UNCHANGED <<focusableElements, currentFocusIndex, activeElement, lastParentMap>>
            /\ decorated' \ other.scope = decorated \ other.scope
            /\ docActive' = docActive \/ docActive' \in other.scope
       /\ last'.op \notin OtherStep =>
            /\ other'.focusableElements = other.focusableElements
            /\ other'.currentFocusIndex = other.currentFocusIndex
            /\ other'.activeElement = other.activeElement
            /\ other'.lastParentMap = other.lastParentMap
            /\ decorated' \cap other.scope = decorated \cap other.scope
            /\ docActive' = docActive \/ docActive' \notin other.scope]_vars

\* the second engine has just focused its element while the first engine
\* holds a decorated active element, and the first engine then acts in turn
C25_Witness ==
    /\ last.op = "move"
    /\ last.kind = "spatial"
    /\ activeElement = 2
    /\ decorated = {2, 3}
    /\ other.activeElement = 3
    /\ other.currentFocusIndex = 0
    /\ other.focusableElements = <<3>>

\* C26: right after destroy() no element carries the focus class,
\* activeElement and previouslyFocusedElement are null and lastParentMap is
\* empty.
C26_DestroyClears ==
    last.op = "destroy" =>
        /\ decorated = {}
        /\ activeElement = None
        /\ previouslyFocusedElement = None
        /\ lastParentMap = NoMap

\* destroy() of an engine that had placed focus on an element of a list
\* holding a head and its children, so that class, references and map were set
C26_Witness ==
    /\ last.op = "destroy"
    /\ docActive # None
    /\ currentFocusIndex = IndexOf(focusableElements, docActive)
    /\ \E h \in Range(focusableElements) :
           ParentKey(h) # "" /\ \E c \in Range(focusableElements) : ChildOfKey(c) = ParentKey(h)

\* C27: right after destroy() currentFocusIndex, which getCurrentFocusIndex
\* returns, is -1.
C27_DestroyResetsIndex ==
    last.op = "destroy" => currentFocusIndex = 0 - 1

\* C28: Destroyed is terminal: once destroy() has run the engine is never
\* initialized again and never has focus handlers again, whatever is called
\* afterwards (init() and updateFocusableElements() included).
C28_DestroyedIsTerminal ==
    torn => (~initialized /\ focusEventHandlers = NoHandlers)

\* C29: after destroy(), a focus event on an element of focusableElements
\* changes no engine state (index, active element, class, map).
C29_HostFocusAfterDestroy ==
    [][(torn /\ last'.op = "focusin" /\ last'.from \in Range(focusableElements)) =>
        UNCHANGED <<currentFocusIndex, activeElement, previouslyFocusedElement,
                    decorated, lastParentMap>>]_vars

DrillDir == IF parentPosition = "right" THEN "ArrowLeft" ELSE "ArrowRight"

FirstVisibleChild(h) ==
    First(SelectSeq(focusableElements, LAMBDA c : ChildOfKey(c) = ParentKey(h) /\ IsVisible(c)))

\* the first visible child lies on the children's side of head h, within
\* 5 px
PositionFits(h) ==
    IF parentPosition = "right"
    THEN getRect(FirstVisibleChild(h)).right <= getRect(h).left + 5
    ELSE getRect(FirstVisibleChild(h)).left >= getRect(h).right - 5

\* C30: a direction command on a head, where the document places focus: in
\* the drill-in direction (right for parent side left, left for parent side
\* right), with a visible child and the first visible child within 5 px of
\* the head's far side, it focuses a visible child of that group by drill-in,
\* whatever the spatial search would pick; in any other direction, or when
\* the position check fails, it does not drill in, and what it focuses is
\* an escape target or an eligible spatial candidate.
C30_DirectionalDrillIn ==
    [][(last'.op = "move" /\ ~last'.failed /\ IsHead(last'.from)) =>
        IF /\ last'.dir = DrillDir
           /\ VisibleChildren(last'.from) # {}
           /\ PositionFits(last'.from)
        THEN /\ last'.kind = "drill"
             /\ activeElement' \in VisibleChildren(last'.from)
             /\ docActive' = activeElement'
             /\ currentFocusIndex' = IndexOf(focusableElements, activeElement')
        ELSE /\ last'.kind \in {"escape", "spatial", "none"}
             /\ last'.kind = "spatial" => activeElement' \in Eligible(last'.from, last'.dir)
             /\ last'.kind = "escape" => activeElement' \in VisibleHeads(last'.from)]_vars

\* drill-in from head 1 to child 3 although leaf 4 is the nearest element to
\* the right of the head
C30_Witness ==
    /\ layout = BehindFixture
    /\ last.op = "move" /\ last.dir = "ArrowRight" /\ last.from = 1 /\ last.kind = "drill"
    /\ ~last.failed
    /\ activeElement = 3
    /\ 4 \in Range(focusableElements) /\ IsVisible(4)

\* the children of head h a drill-in chooses from, in list order: the
\* rendered children that pass the computed-style check, or all rendered
\* children when none passes it
DrillChildren(h) ==
    LET rendered == SelectSeq(focusableElements,
                              LAMBDA c : ChildOfKey(c) = ParentKey(h) /\ IsVisible(c))
        strict == SelectSeq(rendered, LAMBDA c : c \notin styleHidden)
    IN  IF strict # <<>> THEN strict ELSE rendered

\* C31: a drill-in (by a direction command or by enter) on which the
\* document places focus focuses the group's lastParentMap entry when that
\* element is among the visible children of the group in focusableElements,
\* and otherwise the first visible child in list order; the focused child
\* is an element of focusableElements, and afterwards the map entry of the
\* group is the focused child.
C31_DrillInTarget ==
    [][(last'.kind = "drill" /\ ~last'.failed) =>
        LET k == ParentKey(last'.from)
            kids == DrillChildren(last'.from)
            m == lastParentMap[k]
        IN  /\ kids # <<>>
            /\ activeElement' = (IF m # None /\ m \in Range(kids) THEN m ELSE kids[1])
            /\ docActive' = activeElement'
            /\ activeElement' \in Range(focusableElements)
            /\ currentFocusIndex' = IndexOf(focusableElements, activeElement')
            /\ lastParentMap'[k] = activeElement']_vars

\* a drill-in from head 1 that returns to the remembered child 3 although
\* child 2 comes first in the list and is visible
C31_Witness ==
    /\ last.kind = "drill" /\ ~last.failed /\ last.from = 1
    /\ activeElement = 3 /\ docActive = 3
    /\ lastParentMap["k"] = 3
    /\ IndexOf(focusableElements, 2) >= 0
    /\ IndexOf(focusableElements, 2) < IndexOf(focusableElements, 3)
    /\ IsVisible(2) /\ 2 \notin styleHidden

\* e is a nearest eligible candidate from element c in the direction, the
\* first of the nearest in list order
NearestEligible(e, c, direction) ==
    /\ e \in Eligible(c, direction)
    /\ \A x \in Eligible(c, direction) :
           LET dx == Distance(getRect(c), getRect(x), direction)
               de == Distance(getRect(c), getRect(e), direction)
           IN  /\ de <= dx
               /\ de = dx => IndexOf(focusableElements, e) <= IndexOf(focusableElements, x)

\* C32: a head whose group has no visible child behaves as a leaf: a
\* direction command in the drill-in direction on which the document places
\* focus gives what the spatial search alone gives (the nearest eligible
\* candidate, or no change when there is none), and enter invokes onSelect
\* with the head.
C32_ChildlessHeadIsLeaf ==
    [][(/\ last'.op \in {"move", "select"} /\ ~last'.failed
        /\ IsHead(last'.from) /\ VisibleChildren(last'.from) = {}) =>
        IF last'.op = "select"
        THEN /\ last'.selected = last'.from
             /\ UNCHANGED <<currentFocusIndex, activeElement, docActive>>
        ELSE last'.dir = DrillDir =>
                IF Eligible(last'.from, last'.dir) = {}
                THEN /\ last'.kind = "none"
                     /\ UNCHANGED <<currentFocusIndex, activeElement, docActive>>
                ELSE /\ last'.kind = "spatial"
                     /\ NearestEligible(activeElement', last'.from, last'.dir)
                     /\ docActive' = activeElement'
                     /\ currentFocusIndex' = IndexOf(focusableElements, activeElement')]_vars

\* ArrowRight on head 1 while both of its children are hidden: focus goes to
\* leaf 4, the spatial candidate
C32_Witness ==
    /\ layout = BehindFixture
    /\ last.op = "move" /\ last.dir = "ArrowRight" /\ last.from = 1 /\ last.kind = "spatial"
    /\ ~last.failed
    /\ {2, 3} \subseteq Range(focusableElements)
    /\ VisibleChildren(1) = {}
    /\ activeElement = 4 /\ docActive = 4

Clamp(v, lo, hi) == IF v < lo THEN lo ELSE IF v > hi THEN hi ELSE v

Vertical(direction) == direction \in {"ArrowUp", "ArrowDown"}

\* twice the primary-axis and cross-axis deltas of the centres of a and b
PrimaryDelta(a, b, direction) ==
    IF Vertical(direction)
    THEN Abs((2 * b.top + b.height) - (2 * a.top + a.height))
    ELSE Abs((2 * b.left + b.width) - (2 * a.left + a.width))

CrossDelta(a, b, direction) ==
    IF Vertical(direction)
    THEN Abs((2 * b.left + b.width) - (2 * a.left + a.width))
    ELSE Abs((2 * b.top + b.height) - (2 * a.top + a.height))

\* the cross-axis delta is less than a quarter of the smaller extent
Aligned(a, b, direction) ==
    IF Vertical(direction)
    THEN 2 * CrossDelta(a, b, direction) < Min(a.width, b.width)
    ELSE 2 * CrossDelta(a, b, direction) < Min(a.height, b.height)

\* the centre of b, clamped to the cross-axis extent of a, lies within the
\* cross-axis extent of b (all doubled)
ProjectionInside(a, b, direction) ==
    IF Vertical(direction)
    THEN LET p == Clamp(2 * b.left + b.width, 2 * a.left, 2 * a.right)
         IN  2 * b.left <= p /\ p <= 2 * b.right
    ELSE LET p == Clamp(2 * b.top + b.height, 2 * a.top, 2 * a.bottom)
         IN  2 * b.top <= p /\ p <= 2 * b.bottom

\* 2000 times |primary delta| + 0.3 |cross delta|
BaseDistance(a, b, direction) ==
    1000 * PrimaryDelta(a, b, direction) + 300 * CrossDelta(a, b, direction)

\* 2000 times the final distance: the base distance, times 0.8 when
\* aligned, times 1.5 when the projection falls outside the candidate
FinalDistance(a, b, direction) ==
    LET d1 == IF Aligned(a, b, direction)
              THEN (8 * BaseDistance(a, b, direction)) \div 10
              ELSE BaseDistance(a, b, direction)
    IN  IF ProjectionInside(a, b, direction) THEN d1 ELSE (15 * d1) \div 10

\* C33: findNextFocusable returns null exactly when no candidate is
\* eligible, and otherwise an eligible candidate of least final distance,
\* the final distance being |primary delta| + 0.3 |cross delta|, times 0.8
\* for an aligned candidate, times 1.5 when the clamped projection falls
\* outside the candidate.
C33_NearestByFinalDistance ==
    found.current # None =>
        IF Eligible(found.current, found.direction) = {}
        THEN found.result = None
        ELSE /\ found.result \in Eligible(found.current, found.direction)
             /\ \A e \in Eligible(found.current, found.direction) :
                    FinalDistance(getRect(found.current), getRect(found.result), found.direction)
                        <= FinalDistance(getRect(found.current), getRect(e), found.direction)

\* a search the alignment factor decides: the result has the larger base
\* distance of two eligible candidates and the smaller final distance
C33_Witness ==
    /\ found.result \in {2, 3}
    /\ \E e \in Eligible(found.current, found.direction) :
           /\ BaseDistance(getRect(found.current), getRect(e), found.direction)
                < BaseDistance(getRect(found.current), getRect(found.result), found.direction)
           /\ FinalDistance(getRect(found.current), getRect(found.result), found.direction)
                < FinalDistance(getRect(found.current), getRect(e), found.direction)

\* C38: for every eligible candidate of a search the clamped projection lies
\* within the candidate's own extent on the cross axis, so the distance the
\* search gives it is the base distance with at most the 0.8 factor.
C38_ProjectionAlwaysInside ==
    found.current # None =>
        \A e \in Eligible(found.current, found.direction) :
            LET a == getRect(found.current)
                b == getRect(e)
                p == getProjection(a, b, found.direction)
            IN  /\ IF Vertical(found.direction)
                   THEN 2 * b.left <= p /\ p <= 2 * b.right
                   ELSE 2 * b.top <= p /\ p <= 2 * b.bottom
                /\ Distance(a, b, found.direction) \in
                        {BaseDistance(a, b, found.direction),
                         (8 * BaseDistance(a, b, found.direction)) \div 10}

\* a search whose result has its centre beyond the current element's
\* extent on the cross axis, so that the projection is clamped to the edge
C38_Witness ==
    /\ found.result # None
    /\ found.direction = "ArrowDown"
    /\ 2 * getRect(found.result).left + getRect(found.result).width
         > 2 * getRect(found.current).right
    /\ getProjection(getRect(found.current), getRect(found.result), found.direction)
         = 2 * getRect(found.current).right

\* the operations that run updateFocusableElements
Rescans == {"refresh", "init", "timer0"}

\* C34: the lastParentMap entry of a group changes only when a child of
\* that group receives focus (the entry becomes that child), on destroy(),
\* or when a rescan gives a group without entry its first child; a rescan
\* never replaces an existing entry.
C34_MapEntryChanges ==
    [][\A k \in Keys :
        /\ lastParentMap'[k] # lastParentMap[k] =>
            \/ last'.op = "destroy" /\ lastParentMap'[k] = None
            \/ /\ last'.op \in Rescans
               /\ lastParentMap[k] = None
               /\ lastParentMap'[k] =
                    First(SelectSeq(focusableElements', LAMBDA c : ChildOfKey(c) = k))
            \/ /\ last'.op \notin Rescans \cup {"destroy"}
               /\ ChildOfKey(lastParentMap'[k]) = k
               /\ docActive' = lastParentMap'[k]
               /\ activeElement' = lastParentMap'[k]
        /\ (last'.op \in Rescans /\ lastParentMap[k] # None) =>
            lastParentMap'[k] = lastParentMap[k]]_vars

\* the entry of group k is child 3, not the first child, focus has just
\* moved from head 1 down to head 5, outside the group, and the entry is
\* still child 3
C34_Witness ==
    /\ layout = MenuLeftFixture
    /\ last.op = "move" /\ last.kind = "spatial" /\ ~last.failed
    /\ last.from = 1
    /\ activeElement = 5 /\ docActive = 5
    /\ lastParentMap["k"] = 3

\* C35: while focusableElements is empty, a direction command, enter, back
\* and setInitialFocus change no engine state and no focus, invoke no
\* callback and catch no error.
C35_EmptyListInert ==
    [][(focusableElements = <<>>
        /\ last'.op \in {"move", "select", "back", "setInitialFocus"}) =>
        /\ UNCHANGED <<focusableElements, currentFocusIndex, initialized, focusEventHandlers,
                       previouslyFocusedElement, lastParentMap, activeElement,
                       decorated, docActive>>
        /\ last'.selected = None
        /\ ~last'.failed
        /\ last'.kind = "none"]_vars

\* setInitialFocus() before the first scan, while the user has focus on an
\* element of the page
C35_Witness ==
    /\ last.op = "setInitialFocus"
    /\ focusableElements = <<>>
    /\ ~initialized
    /\ docActive # None
    /\ activeElement = None
    /\ currentFocusIndex = 0 - 1

\* C36: in every reachable state in which activeElement is a child of
\* group k, the lastParentMap entry of k is activeElement.
C36_ActiveChildIsRemembered ==
    (activeElement # None /\ ChildOfKey(activeElement) # "") =>
        lastParentMap[ChildOfKey(activeElement)] = activeElement

\* C37: every element on which a direction command, enter or back places
\* focus is at that moment an element of focusableElements and rendered,
\* the head an escape chooses among several heads of one key included.
C37_TargetRegisteredAndVisible ==
    [][(/\ last'.op \in {"move", "select", "back"}
        /\ last'.kind \in {"drill", "escape", "spatial", "back"}
        /\ ~last'.failed) =>
        /\ activeElement' \in Range(focusableElements)
        /\ IsVisible(activeElement')]_vars

\* C39: the child a directional drill-in focuses lies on the drill-in side
\* of the head: child.left >= head.right - 5 for parent side left,
\* child.right <= head.left + 5 for parent side right.
C39_DrillTargetOnDrillSide ==
    [][(last'.op = "move" /\ last'.kind = "drill" /\ ~last'.failed) =>
        IF parentPosition = "right"
        THEN getRect(activeElement').right <= getRect(last'.from).left + 5
        ELSE getRect(activeElement').left >= getRect(last'.from).right - 5]_vars

\* C40: init() on an initialized engine, called by the page or run as the
\* constructor's deferred step, does nothing: the list, the handlers, the
\* pending timers, the focus state, the class and the document's focus stay
\* as they are; on an engine that is not initialized it initializes.  An
\* automatic and a manual init() together therefore initialize once.
C40_InitOnce ==
    [][last'.op \in {"init", "timer0"} =>
        IF initialized
        THEN /\ last'.kind = "none"
             /\ UNCHANGED <<focusableElements, currentFocusIndex, initialized,
                            focusEventHandlers, previouslyFocusedElement, lastParentMap,
                            activeElement, decorated, docActive, pending100, pending300>>
        ELSE /\ last'.kind = "init"
             /\ initialized'
             /\ pending100' = pending100 + 1
             /\ pending300' = pending300 + 1]_vars

\* the constructor's deferred init() has just run on an engine that a
\* manual init() had initialized before, with the document changed since
\* that scan: nothing was rescanned and no second pair of timers exists
C40_Witness ==
    /\ last.op = "timer0"
    /\ last.kind = "none"
    /\ initialized
    /\ ~torn
    /\ focusableElements # dom
    /\ pending100 + pending300 <= 2

====
